---- MODULE Spec2Model ----
(***************************************************************************)
(* Model of the chatops bot: bootstrap (MattermostBot.run), the connection *)
(* supervisor (connect_websocket_or_fallback / poll_messages / run_bot)    *)
(* and the message dispatcher (handle_message / handle_restart_message).   *)
(*                                                                         *)
(* The chat-server client library is an opaque collaborator: every call    *)
(* into it either returns or raises, chosen nondeterministically.          *)
(* Time is the wall clock in whole seconds.                                *)
(***************************************************************************)
EXTENDS Integers, Sequences, FiniteSets, TLC

\* ------------------------------------------------------------------ bounds
\* longest message body, in whitespace-separated tokens
MaxLen == 4
\* channels returned by one get_channels_for_user call
MaxChannels == 2
\* posts returned by one get_posts_for_channel call
MaxBatch == 2
\* number of times the polling loop sleeps in one behaviour
MaxPolls == 4
\* posts created on the server while the polling loop is followed
MaxPosts == 2
\* seconds that pass inside polling cycles (requests and handlers take time)
MaxLag == 2

\* ------------------------------------------------------- program constants
\* self.poll_interval
PollInterval == 10
\* self.reconnect_delay
ReconnectDelay == 15 * 60

\* the bot's own user id (driver.users.get_user('me')['id']) and another user
BotId == "bot"
OtherUser == "u2"

\* ------------------------------------------------------------- message text
\* Raw whitespace-delimited tokens a message body is made of.  A body is the
\* sequence of its tokens; the empty sequence is an empty or whitespace-only
\* body (str.split() of it is the empty list).
RawTokens == {"@Avarc-ChatOps-Bot:", "restart", "yourself", "Help", "hello", "backend"}

\* str.lower() on one token
Lower(t) ==
  CASE t = "@Avarc-ChatOps-Bot:" -> "@avarc-chatops-bot:"
    [] t = "Help" -> "help"
    [] OTHER -> t

\* message_text.lower().split()
Words(body) == [i \in 1..Len(body) |-> Lower(body[i])]

\* str.startswith("@avarc-chatops-bot") on a token
StartsWithMention(t) == t \in {"@avarc-chatops-bot", "@avarc-chatops-bot:"}

\* is_direct_message: words[0].lower().startswith(...); raises IndexError on
\* an empty list, which the caller models before calling this operator.
is_direct_message(words) == StartsWithMention(Lower(words[1]))

contains_hello_keyword(words) == \E i \in 1..Len(words) : words[i] = "hello"

contains_help_keyword(words) == \E i \in 1..Len(words) : words[i] = "help"

contains_restart_keyword(words) == \E i \in 1..Len(words) : words[i] = "restart"

\* list.index("restart"): the position of the FIRST occurrence
RestartIndex(words) ==
  CHOOSE i \in 1..Len(words) :
    /\ words[i] = "restart"
    /\ \A j \in 1..(i - 1) : words[j] # "restart"

\* One create_post call made by send_mattermost_message: the text handed to
\* the transport and whether the transport accepted it.  A failure is caught
\* and logged inside send_mattermost_message, so the caller goes on.
Reply(text, ok) == [text |-> text, ok |-> ok]

\* handle_restart_message with a swallowed exit (mutation: sys.exit caught)
handle_restart_message_noexit(words, ok) ==
  IF ~contains_restart_keyword(words) THEN [sent |-> <<>>, exit |-> FALSE]
  ELSE LET i == RestartIndex(words) IN
    IF i = Len(words)
    THEN [sent |-> <<Reply("menu", ok)>>, exit |-> FALSE]
    ELSE IF words[i + 1] = "yourself"
         THEN [sent |-> <<Reply("farewell", ok)>>, exit |-> FALSE]
         ELSE [sent |-> <<Reply("unknown", ok)>>, exit |-> FALSE]

\* handle_restart_message comparing the index with the wrong length
\* (mutation: off by one in "restart is the last word")
handle_restart_message_offbyone(words, ok) ==
  IF ~contains_restart_keyword(words) THEN [sent |-> <<>>, exit |-> FALSE]
  ELSE LET i == RestartIndex(words) IN
    IF i + 1 = Len(words)
    THEN [sent |-> <<Reply("menu", ok)>>, exit |-> FALSE]
    ELSE IF i + 1 < Len(words) /\ words[i + 1] = "yourself"
         THEN [sent |-> <<Reply("farewell", ok)>>, exit |-> TRUE]
         ELSE [sent |-> <<Reply("unknown", ok)>>, exit |-> FALSE]

\* handle_restart_message: the posts it sends and whether it calls
\* sys.exit(0).  The final "WUD ???" branch needs restart_index + 1 > len,
\* which index() never produces.
handle_restart_message(words, ok) ==
  IF ~contains_restart_keyword(words) THEN [sent |-> <<>>, exit |-> FALSE]
  ELSE LET i == RestartIndex(words) IN
    IF i = Len(words)
    THEN [sent |-> <<Reply("menu", ok)>>, exit |-> FALSE]
    ELSE IF i < Len(words)
         THEN IF words[i + 1] = "yourself"
              THEN [sent |-> <<Reply("farewell", ok)>>, exit |-> TRUE]
              ELSE [sent |-> <<Reply("unknown", ok)>>, exit |-> FALSE]
         ELSE [sent |-> <<Reply("wud", ok)>>, exit |-> FALSE]

\* first branch of handle_message: the direct-address / restart check
DirectPart(words, ok) ==
  IF is_direct_message(words)
  THEN IF contains_restart_keyword(words)
       THEN handle_restart_message(words, ok)
       ELSE [sent |-> <<Reply("talking", ok)>>, exit |-> FALSE]
  ELSE [sent |-> <<>>, exit |-> FALSE]

\* keyword branch with two independent ifs (mutation: elif written as if)
KeywordPart_both(words, ok) ==
  (IF contains_help_keyword(words) THEN <<Reply("help", ok)>> ELSE <<>>)
  \o (IF contains_hello_keyword(words) THEN <<Reply("hello", ok)>> ELSE <<>>)

\* keyword branch testing hello first (mutation: priority swapped)
KeywordPart_hellofirst(words, ok) ==
  IF contains_hello_keyword(words) THEN <<Reply("hello", ok)>>
  ELSE IF contains_help_keyword(words) THEN <<Reply("help", ok)>>
  ELSE <<>>

\* second branch of handle_message: help, else hello
KeywordPart(words, ok) ==
  IF contains_help_keyword(words) THEN <<Reply("help", ok)>>
  ELSE IF contains_hello_keyword(words) THEN <<Reply("hello", ok)>>
  ELSE <<>>

\* self-message guard that never matches (mutation: guard dropped)
IsSelf_never(user_id) == FALSE

\* user_id == bot_user['id']
IsSelf(user_id) == user_id = BotId

\* handle_message that goes on when the identity lookup fails (mutation:
\* the lookup wrapped in its own try, the self check skipped on failure)
handle_message_failopen(p, lookupOk, ok1, ok2) ==
  IF ~p.complete THEN [sent |-> <<>>, exit |-> FALSE]
  ELSE IF lookupOk /\ IsSelf(p.user_id) THEN [sent |-> <<>>, exit |-> FALSE]
  ELSE LET words == Words(p.message) IN
    IF Len(words) = 0 THEN [sent |-> <<>>, exit |-> FALSE]
    ELSE LET d == DirectPart(words, ok1) IN
      IF d.exit THEN d
      ELSE [sent |-> d.sent \o KeywordPart(words, IF d.sent = <<>> THEN ok1 ELSE ok2),
            exit |-> FALSE]

\* handle_message.  p is post_data, lookupOk says whether
\* driver.users.get_user('me') returned, ok1/ok2 whether the first and the
\* second create_post were accepted.  The result is the sequence of posts
\* handed to the transport and whether SystemExit leaves the function
\* (SystemExit is not an Exception, so neither except clause catches it).
\* A missing field (KeyError), a failed lookup and an empty word list
\* (IndexError in is_direct_message) all end in the except clauses.
handle_message(p, lookupOk, ok1, ok2) ==
  IF ~p.complete THEN [sent |-> <<>>, exit |-> FALSE]
  ELSE IF ~lookupOk THEN [sent |-> <<>>, exit |-> FALSE]
  ELSE IF IsSelf(p.user_id) THEN [sent |-> <<>>, exit |-> FALSE]
  ELSE LET words == Words(p.message) IN
    IF Len(words) = 0 THEN [sent |-> <<>>, exit |-> FALSE]
    ELSE LET d == DirectPart(words, ok1) IN
      IF d.exit THEN d
      ELSE [sent |-> d.sent \o KeywordPart(words, IF d.sent = <<>> THEN ok1 ELSE ok2),
            exit |-> FALSE]

\* ------------------------------------------------------------ inbound data
Bodies(n) == UNION {[1..k -> RawTokens] : k \in 0..n}

\* "no post": the value of post while nothing is being dispatched
NoPost == [user_id |-> "none", message |-> <<>>, complete |-> FALSE]

\* a post that lacks one of channel_id / message / user_id
MalformedPost == [user_id |-> OtherUser, message |-> <<>>, complete |-> FALSE]

\* every post the transport can deliver, up to the length bound
AllPosts ==
  {[user_id |-> u, message |-> b, complete |-> TRUE] :
      u \in {BotId, OtherUser}, b \in Bodies(MaxLen)} \cup {MalformedPost}

\* the posts delivered while the supervisor is explored together with the
\* clock: one of each kind of reaction of the dispatcher
SampleBodies ==
  { <<>>, <<"hello">>, <<"Help", "hello">>, <<"backend">>,
    <<"@Avarc-ChatOps-Bot:", "restart", "yourself">>,
    <<"@Avarc-ChatOps-Bot:", "restart">>,
    <<"@Avarc-ChatOps-Bot:", "restart", "backend">>,
    <<"@Avarc-ChatOps-Bot:", "Help">> }

SamplePosts ==
  {[user_id |-> u, message |-> b, complete |-> TRUE] :
      u \in {BotId, OtherUser}, b \in SampleBodies} \cup {MalformedPost}

\* what init_websocket hands to on_message: a "posted" event carrying a
\* post, an event of another type, a string that is not JSON, or a "posted"
\* event without data.post
EventKinds == {"posted", "typing", "garbled", "nodata"}

\* ------------------------------------------------------------------- state
VARIABLES
  pc,                  \* position of the single thread of control
  depth,               \* number of poll_messages activations on the stack
  now,                 \* time.time()
  polling_start_time,  \* local of the innermost poll_messages
  last_checked,        \* local of the innermost poll_messages
  polls,               \* sleeps of the polling loop so far (bounded)
  chansLeft,           \* channels of this cycle not fetched yet
  batch,               \* fetched posts of this channel not dispatched yet
  wsOpen,              \* the push subscription is open (library side)
  failed,              \* this run() aborted its bootstrap
  announced,           \* this run() posted the startup announcement
  event,               \* kind of the inbound item being dispatched
  post,                \* post_data being dispatched
  lookup,              \* result of get_user('me') in this dispatch
  sent,                \* create_post calls made by this dispatch
  exitStatus,          \* -1 while running, else the process exit status
  lastReconnect,       \* time of the last reconnection attempt, -1 if none
  boot,                \* outcome of each bootstrap step of this run()
  server,              \* posts created on the server while polling
  queue,               \* ids of the fetched posts not yet dispatched
  fed                  \* per post, how often it was handed to handle_message

vars == <<pc, depth, now, polling_start_time, last_checked, polls, chansLeft,
          batch, wsOpen, failed, announced, event, post, lookup, sent,
          exitStatus, lastReconnect, boot, server, queue, fed>>

clockVars == <<now, polling_start_time, last_checked, polls, lastReconnect>>
pollVars == <<chansLeft, batch>>
bootVars == <<failed, announced, boot>>

\* the steps of run() before the connection, in order
BootSteps == {"login", "team", "user", "channel", "announce"}

\* no step of this run() has been taken yet
NotBooted == [st \in BootSteps |-> "pending"]
msgVars == <<event, post, lookup, sent>>
srvVars == <<server, queue, fed>>

\* no post has been created on the server
NoneFed == [i \in 1..MaxPosts |-> 0]

WsPcs == {"ws", "ws_msg", "ws_ret"}
PollPcs == {"poll_list", "poll_chan", "poll_disp", "poll_msg", "poll_ret",
            "poll_sleep"}

\* state right after MattermostBot() is constructed and run_bot starts
Init ==
  /\ pc = "login"
  /\ depth = 0
  /\ now = 0
  /\ polling_start_time = 0
  /\ last_checked = 0
  /\ polls = 0
  /\ chansLeft = 0
  /\ batch = 0
  /\ wsOpen = FALSE
  /\ failed = FALSE
  /\ announced = FALSE
  /\ event = "none"
  /\ post = NoPost
  /\ lookup = "none"
  /\ sent = <<>>
  /\ exitStatus = -1
  /\ lastReconnect = -1
  /\ boot = NotBooted
  /\ server = {}
  /\ queue = <<>>
  /\ fed = NoneFed

\* --------------------------------------------------------------- bootstrap
\* run(): an exception of any step is caught by run()'s own except clauses,
\* so run() returns normally to run_bot.
AbortRun ==
  /\ pc' = "run_done"
  /\ failed' = TRUE
  /\ UNCHANGED <<depth, wsOpen, announced, boot, exitStatus>>
  /\ UNCHANGED <<clockVars, pollVars, msgVars>>

\* a step of the bootstrap returned: it is recorded as done
StepOk(step, next) ==
  /\ pc' = next
  /\ boot' = [boot EXCEPT ![step] = "ok"]
  /\ UNCHANGED <<failed, announced>>
  /\ UNCHANGED <<depth, wsOpen, exitStatus>>
  /\ UNCHANGED <<clockVars, pollVars, msgVars>>

\* mutation: a login failure ends the process
Login_fatal ==
  /\ pc = "login"
  /\ \E ok \in BOOLEAN :
       IF ok
       THEN StepOk("login", "team")
       ELSE /\ pc' = "exited"
            /\ exitStatus' = 1
            /\ UNCHANGED <<depth, wsOpen, bootVars>>
            /\ UNCHANGED <<clockVars, pollVars, msgVars>>
  /\ UNCHANGED srvVars

\* self.driver.login()
Login ==
  /\ pc = "login"
  /\ \E ok \in BOOLEAN :
       IF ok THEN StepOk("login", "team") ELSE AbortRun
  /\ UNCHANGED srvVars

\* get_team_by_name: a team, no team ("not found", run returns) or raises
GetTeam ==
  /\ pc = "team"
  /\ \E r \in {"ok", "notfound", "raise"} :
       IF r = "ok" THEN StepOk("team", "user") ELSE AbortRun
  /\ UNCHANGED srvVars

\* get_user('me') whose failure is only logged (mutation: the lookup
\* wrapped in a helper that catches the exception, like get_private_channel)
GetUser_lenient ==
  /\ pc = "user"
  /\ \E ok \in BOOLEAN :
       IF ok
       THEN StepOk("user", "channel")
       ELSE /\ pc' = "channel"
            /\ boot' = [boot EXCEPT !["user"] = "failed"]
            /\ UNCHANGED <<failed, announced>>
            /\ UNCHANGED <<depth, wsOpen, exitStatus>>
            /\ UNCHANGED <<clockVars, pollVars, msgVars>>
  /\ UNCHANGED srvVars

\* get_user('me') during bootstrap
GetUser ==
  /\ pc = "user"
  /\ \E ok \in BOOLEAN :
       IF ok THEN StepOk("user", "channel") ELSE AbortRun
  /\ UNCHANGED srvVars

\* get_private_channel: returns an id, or None (also when the call raises);
\* without a channel run() logs an error and goes on to the connection.
GetPrivateChannel ==
  /\ pc = "channel"
  /\ \E found \in BOOLEAN :
       /\ pc' = IF found THEN "notify" ELSE "connect"
       /\ boot' = [boot EXCEPT !["channel"] = IF found THEN "ok" ELSE "failed"]
  /\ UNCHANGED <<failed, announced>>
  /\ UNCHANGED <<depth, wsOpen, exitStatus>>
  /\ UNCHANGED <<clockVars, pollVars, msgVars>>
  /\ UNCHANGED srvVars

\* get_channel_names + send_initial_channel_notification: both catch every
\* exception, so the announcement may be missing and run() goes on.
Notify ==
  /\ pc = "notify"
  /\ \E ok \in BOOLEAN :
       /\ announced' = ok
       /\ boot' = [boot EXCEPT !["announce"] = IF ok THEN "ok" ELSE "failed"]
  /\ pc' = "connect"
  /\ UNCHANGED <<depth, wsOpen, failed, exitStatus>>
  /\ UNCHANGED <<clockVars, pollVars, msgVars>>
  /\ UNCHANGED srvVars

\* run_bot: "while True: await bot.run()".  run() never raises an
\* Exception, so the except clause with its sleep is not reached and the
\* next run() starts at once.
RunBot ==
  /\ pc = "run_done"
  /\ pc' = "login"
  /\ failed' = FALSE
  /\ announced' = FALSE
  /\ boot' = NotBooted
  /\ UNCHANGED <<depth, wsOpen, exitStatus>>
  /\ UNCHANGED <<clockVars, pollVars, msgVars>>
  /\ UNCHANGED srvVars

\* -------------------------------------------------------------- supervisor
\* poll_messages entered without a fresh start time (mutation: the start
\* timestamp is kept from the enclosing loop)
EnterPolling_stale ==
  /\ pc' = "poll_list"
  /\ depth' = depth + 1
  /\ last_checked' = now
  /\ polling_start_time' = polling_start_time
  /\ wsOpen' = FALSE
  /\ UNCHANGED <<now, polls, lastReconnect, exitStatus>>
  /\ UNCHANGED <<pollVars, bootVars, msgVars>>

\* the except clauses of connect_websocket_or_fallback: a new activation of
\* poll_messages starts, with last_checked and polling_start_time read from
\* the clock.  Called from the polling loop this activation is nested in the
\* suspended one.
EnterPolling ==
  /\ pc' = "poll_list"
  /\ depth' = depth + 1
  /\ last_checked' = now
  /\ polling_start_time' = now
  /\ wsOpen' = FALSE
  /\ UNCHANGED <<now, polls, lastReconnect, exitStatus>>
  /\ UNCHANGED <<pollVars, bootVars, msgVars>>

\* connect_websocket_or_fallback returns normally: the caller is run(), or a
\* poll_messages that breaks out of its loop and returns to the except
\* clause that called it, and so on down to run(), which returns to run_bot.
\* No await lies on that path.
ReturnToRunBot ==
  /\ pc' = "run_done"
  /\ depth' = 0
  /\ UNCHANGED <<exitStatus>>
  /\ UNCHANGED <<clockVars, pollVars, bootVars, msgVars>>

\* init_websocket not awaited to its end (mutation: the subscription is left
\* running while connect_websocket_or_fallback returns)
Connect_detached ==
  /\ pc = "connect"
  /\ \E r \in {"opened", "closed", "error"} :
       IF r = "opened"
       THEN /\ wsOpen' = TRUE
            /\ ReturnToRunBot
       ELSE /\ pc' = "poll_list"
            /\ depth' = depth + 1
            /\ last_checked' = now
            /\ polling_start_time' = now
            /\ UNCHANGED <<wsOpen, now, polls, lastReconnect, exitStatus>>
            /\ UNCHANGED <<pollVars, bootVars, msgVars>>
  /\ UNCHANGED srvVars

\* await self.driver.init_websocket(self.on_message): the subscription
\* opens, or the call raises WebSocketConnectionClosedException or another
\* Exception before any event is delivered.
Connect ==
  /\ pc = "connect"
  /\ \E r \in {"opened", "closed", "error"} :
       IF r = "opened"
       THEN /\ pc' = "ws"
            /\ wsOpen' = TRUE
            /\ UNCHANGED <<depth, exitStatus>>
            /\ UNCHANGED <<clockVars, pollVars, bootVars, msgVars>>
       ELSE EnterPolling
  /\ UNCHANGED srvVars

\* the open subscription ends by raising (connection closed, or any other
\* transport error): the matching except clause starts polling
WsRaise ==
  /\ pc = "ws"
  /\ \E r \in {"closed", "error"} : EnterPolling
  /\ UNCHANGED srvVars

\* the open subscription ends and init_websocket returns (remote close
\* without an exception): connect_websocket_or_fallback just returns
WsReturn ==
  /\ pc = "ws"
  /\ wsOpen' = FALSE
  /\ ReturnToRunBot
  /\ UNCHANGED srvVars

\* the subscription invokes on_message with the next event
WsDeliver(P) ==
  /\ pc = "ws"
  /\ \E k \in EventKinds :
       /\ event' = k
       /\ IF k = "posted" THEN post' \in P ELSE post' = NoPost
  /\ pc' = "ws_msg"
  /\ lookup' = "none"
  /\ sent' = <<>>
  /\ UNCHANGED <<depth, wsOpen, exitStatus>>
  /\ UNCHANGED <<clockVars, pollVars, bootVars>>
  /\ UNCHANGED srvVars

WsDeliverSample == WsDeliver(SamplePosts)

WsDeliverAny == WsDeliver(AllPosts)

\* dispatch in which a failed create_post is not caught (mutation: the
\* exception of the send leaves handle_message and ends the process)
Dispatch_sendfatal(next) ==
  \E lk \in BOOLEAN, ok1 \in BOOLEAN, ok2 \in BOOLEAN :
    LET r == handle_message(post, lk, ok1, ok2) IN
      /\ lookup' = IF post.complete THEN (IF lk THEN "ok" ELSE "failed") ELSE "none"
      /\ sent' = r.sent
      /\ IF r.exit \/ (\E i \in 1..Len(r.sent) : ~r.sent[i].ok)
         THEN /\ pc' = "exited"
              /\ exitStatus' = IF r.exit THEN 0 ELSE 1
         ELSE /\ pc' = next
              /\ UNCHANGED exitStatus

\* effect of one handle_message call on the dispatch variables and on the
\* process: the posts sent, and the exit if SystemExit leaves the call
\* (it passes every "except Exception" on its way up to asyncio.run)
Dispatch(next) ==
  \E lk \in BOOLEAN, ok1 \in BOOLEAN, ok2 \in BOOLEAN :
    LET r == handle_message(post, lk, ok1, ok2) IN
      /\ lookup' = IF post.complete THEN (IF lk THEN "ok" ELSE "failed") ELSE "none"
      /\ sent' = r.sent
      /\ IF r.exit
         THEN /\ pc' = "exited"
              /\ exitStatus' = 0
         ELSE /\ pc' = next
              /\ UNCHANGED exitStatus

\* on_message without its except clauses (mutation: an event that cannot
\* be decoded raises into the subscription, which ends and polling starts)
OnMessage_decodefatal ==
  /\ pc = "ws_msg"
  /\ IF event = "posted"
     THEN /\ Dispatch("ws_ret")
          /\ UNCHANGED <<depth, wsOpen, polling_start_time, last_checked>>
     ELSE /\ pc' = IF event = "typing" THEN "ws_ret" ELSE "poll_list"
          /\ depth' = IF event = "typing" THEN depth ELSE depth + 1
          /\ wsOpen' = (event = "typing")
          /\ polling_start_time' = now
          /\ last_checked' = now
          /\ UNCHANGED <<lookup, sent, exitStatus>>
  /\ UNCHANGED <<event, post, now, polls, lastReconnect>>
  /\ UNCHANGED <<pollVars, bootVars>>
  /\ UNCHANGED srvVars

\* on_message: json.loads of the event (JSONDecodeError caught), the test
\* of the event type, json.loads of data.post (KeyError caught), then
\* handle_message
OnMessage ==
  /\ pc = "ws_msg"
  /\ IF event = "posted"
     THEN Dispatch("ws_ret")
     ELSE /\ pc' = "ws_ret"
          /\ UNCHANGED <<lookup, sent, exitStatus>>
  /\ UNCHANGED <<event, post, depth, wsOpen>>
  /\ UNCHANGED <<clockVars, pollVars, bootVars>>
  /\ UNCHANGED srvVars

\* on_message has returned; the event is dropped
WsDiscard ==
  /\ pc = "ws_ret"
  /\ pc' = "ws"
  /\ event' = "none"
  /\ post' = NoPost
  /\ lookup' = "none"
  /\ sent' = <<>>
  /\ UNCHANGED <<depth, wsOpen, exitStatus>>
  /\ UNCHANGED <<clockVars, pollVars, bootVars>>
  /\ UNCHANGED srvVars

\* ----------------------------------------------------------------- polling
\* top of the loop body: get_channels_for_user returns n channels or raises
\* (the except clauses of the loop lead to the sleep)
PollListChannels ==
  /\ pc = "poll_list"
  /\ \E n \in -1..MaxChannels :
       IF n = -1
       THEN /\ pc' = "poll_sleep"
            /\ UNCHANGED chansLeft
       ELSE /\ pc' = "poll_chan"
            /\ chansLeft' = n
  /\ UNCHANGED <<batch, depth, wsOpen, exitStatus>>
  /\ UNCHANGED <<clockVars, bootVars, msgVars>>
  /\ UNCHANGED srvVars

\* get_posts_for_channel whose exception leaves the loop (mutation: the
\* try placed around the whole while loop instead of the loop body)
PollGetPosts_fatal ==
  /\ pc = "poll_chan"
  /\ chansLeft > 0
  /\ \E k \in -1..MaxBatch :
       IF k = -1
       THEN /\ pc' = "run_done"
            /\ depth' = 0
            /\ chansLeft' = 0
            /\ UNCHANGED batch
       ELSE /\ pc' = IF k > 0 THEN "poll_disp" ELSE "poll_chan"
            /\ chansLeft' = chansLeft - 1
            /\ batch' = k
            /\ UNCHANGED depth
  /\ UNCHANGED <<wsOpen, exitStatus>>
  /\ UNCHANGED <<clockVars, bootVars, msgVars>>
  /\ UNCHANGED srvVars

\* get_posts_for_channel for the next channel: raises, or returns a reply
\* with k posts (k = 0 also stands for a reply without 'posts')
PollGetPosts ==
  /\ pc = "poll_chan"
  /\ chansLeft > 0
  /\ \E k \in -1..MaxBatch :
       IF k = -1
       THEN /\ pc' = "poll_sleep"
            /\ chansLeft' = 0
            /\ UNCHANGED batch
       ELSE /\ pc' = IF k > 0 THEN "poll_disp" ELSE "poll_chan"
            /\ chansLeft' = chansLeft - 1
            /\ batch' = k
  /\ UNCHANGED <<depth, wsOpen, exitStatus>>
  /\ UNCHANGED <<clockVars, bootVars, msgVars>>
  /\ UNCHANGED srvVars

\* the inner for loop binds post_data to the next fetched post
PollDeliver(P) ==
  /\ pc = "poll_disp"
  /\ batch > 0
  /\ post' \in P
  /\ event' = "posted"
  /\ batch' = batch - 1
  /\ pc' = "poll_msg"
  /\ lookup' = "none"
  /\ sent' = <<>>
  /\ UNCHANGED <<chansLeft, depth, wsOpen, exitStatus>>
  /\ UNCHANGED <<clockVars, bootVars>>
  /\ UNCHANGED srvVars

PollDeliverSample == PollDeliver(SamplePosts)

PollDeliverAny == PollDeliver(AllPosts)

\* handle_message(self.driver, post_data) inside the polling loop
PollHandle ==
  /\ pc = "poll_msg"
  /\ Dispatch("poll_ret")
  /\ UNCHANGED <<event, post, depth, wsOpen>>
  /\ UNCHANGED <<clockVars, pollVars, bootVars>>
  /\ UNCHANGED srvVars

\* handle_message has returned; next post, or next channel
PollDiscard ==
  /\ pc = "poll_ret"
  /\ pc' = IF batch > 0 THEN "poll_disp" ELSE "poll_chan"
  /\ event' = "none"
  /\ post' = NoPost
  /\ lookup' = "none"
  /\ sent' = <<>>
  /\ UNCHANGED <<depth, wsOpen, exitStatus>>
  /\ UNCHANGED <<clockVars, pollVars, bootVars>>
  /\ UNCHANGED srvVars

\* end of a cycle whose requests all succeeded: last_checked advances and,
\* once reconnect_delay has passed since polling_start_time, the loop calls
\* connect_websocket_or_fallback
PollCycleEnd ==
  /\ pc = "poll_chan"
  /\ chansLeft = 0
  /\ last_checked' = now
  /\ IF now - polling_start_time >= ReconnectDelay
     THEN /\ pc' = "connect"
          /\ lastReconnect' = now
     ELSE /\ pc' = "poll_sleep"
          /\ UNCHANGED lastReconnect
  /\ UNCHANGED <<now, polling_start_time, polls, depth, wsOpen, exitStatus>>
  /\ UNCHANGED <<pollVars, bootVars, msgVars>>
  /\ UNCHANGED srvVars

\* await asyncio.sleep(self.poll_interval): the clock has advanced by the
\* interval, or by as much as reconnect_delay when the cycle was slow
PollSleep ==
  /\ pc = "poll_sleep"
  /\ polls < MaxPolls
  /\ \E lag \in {0, ReconnectDelay - PollInterval} :
       now' = now + PollInterval + lag
  /\ polls' = polls + 1
  /\ pc' = "poll_list"
  /\ UNCHANGED <<polling_start_time, last_checked, lastReconnect>>
  /\ UNCHANGED <<depth, wsOpen, exitStatus>>
  /\ UNCHANGED <<pollVars, bootVars, msgVars>>
  /\ UNCHANGED srvVars

\* ------------------------------------------------ polling against a server
\* The channels of the bot are 1..MaxChannels.  A post on the server has an
\* id, a channel and the second of its creation.

\* the post_data of a post fetched from the server: a greeting by another
\* user, which is answered whenever it is dispatched
PolledPosts == {[user_id |-> OtherUser, message |-> <<"hello">>, complete |-> TRUE]}

\* a set of post ids as the sequence the transport returns (ascending)
InOrder(S) ==
  CHOOSE q \in [1..Cardinality(S) -> S] :
    \A i, j \in 1..Cardinality(S) : i < j => q[i] < q[j]

\* get_posts_for_channel(c, params={'since': since * 1000}): the posts of the
\* channel created after the millisecond since * 1000, i.e. in second since
\* or later
PostsSince(c, since) == {p.id : p \in {q \in server : q.chan = c /\ q.at >= since}}

\* somebody writes a post in one of the bot's channels
SrvArrive ==
  /\ pc \in PollPcs
  /\ Cardinality(server) < MaxPosts
  /\ \E c \in 1..MaxChannels :
       server' = server \cup {[id |-> Cardinality(server) + 1, chan |-> c, at |-> now]}
  /\ UNCHANGED <<pc, depth, wsOpen, exitStatus, queue, fed>>
  /\ UNCHANGED <<clockVars, pollVars, bootVars, msgVars>>

\* a second passes inside a cycle: the requests and handle_message (which
\* itself calls the server) are blocking calls
SrvElapse ==
  /\ pc \in {"poll_chan", "poll_disp", "poll_msg", "poll_ret"}
  /\ now % PollInterval < MaxLag
  /\ now' = now + 1
  /\ UNCHANGED <<polling_start_time, last_checked, polls, lastReconnect>>
  /\ UNCHANGED <<pc, depth, wsOpen, exitStatus>>
  /\ UNCHANGED <<pollVars, bootVars, msgVars, srvVars>>

\* get_channels_for_user: all channels of the bot, or raises
PollListAll ==
  /\ pc = "poll_list"
  /\ \E ok \in BOOLEAN :
       IF ok
       THEN /\ pc' = "poll_chan"
            /\ chansLeft' = MaxChannels
       ELSE /\ pc' = "poll_sleep"
            /\ UNCHANGED chansLeft
  /\ UNCHANGED <<batch, depth, wsOpen, exitStatus>>
  /\ UNCHANGED <<clockVars, bootVars, msgVars, srvVars>>

\* get_posts_for_channel for the next channel, with since = last_checked:
\* raises, or returns the posts of that channel since then
PollFetchSince ==
  /\ pc = "poll_chan"
  /\ chansLeft > 0
  /\ \E ok \in BOOLEAN :
       IF ok
       THEN LET ids == PostsSince(chansLeft, last_checked) IN
            /\ queue' = InOrder(ids)
            /\ batch' = Cardinality(ids)
            /\ chansLeft' = chansLeft - 1
            /\ pc' = IF ids # {} THEN "poll_disp" ELSE "poll_chan"
       ELSE /\ pc' = "poll_sleep"
            /\ chansLeft' = 0
            /\ UNCHANGED <<batch, queue>>
  /\ UNCHANGED <<server, fed, depth, wsOpen, exitStatus>>
  /\ UNCHANGED <<clockVars, bootVars, msgVars>>

\* the inner for loop binds post_data to the next fetched post, which is
\* about to be handed to handle_message
PollDeliverFetched ==
  /\ pc = "poll_disp"
  /\ batch > 0
  /\ queue # <<>>
  /\ fed' = [fed EXCEPT ![Head(queue)] = @ + 1]
  /\ queue' = Tail(queue)
  /\ post' \in PolledPosts
  /\ event' = "posted"
  /\ batch' = batch - 1
  /\ pc' = "poll_msg"
  /\ lookup' = "none"
  /\ sent' = <<>>
  /\ UNCHANGED <<server, chansLeft, depth, wsOpen, exitStatus>>
  /\ UNCHANGED <<clockVars, bootVars>>

\* await asyncio.sleep(self.poll_interval) that takes the interval exactly
PollSleepInterval ==
  /\ pc = "poll_sleep"
  /\ polls < MaxPolls
  /\ now' = now + PollInterval
  /\ polls' = polls + 1
  /\ pc' = "poll_list"
  /\ UNCHANGED <<polling_start_time, last_checked, lastReconnect>>
  /\ UNCHANGED <<depth, wsOpen, exitStatus>>
  /\ UNCHANGED <<pollVars, bootVars, msgVars, srvVars>>

\* ---------------------------------------------------------- specifications
Next ==
  \/ Login \/ GetTeam \/ GetUser \/ GetPrivateChannel \/ Notify \/ RunBot
  \/ Connect \/ WsRaise \/ WsReturn
  \/ WsDeliverSample \/ OnMessage \/ WsDiscard
  \/ PollListChannels \/ PollGetPosts \/ PollDeliverSample \/ PollHandle
  \/ PollDiscard \/ PollCycleEnd \/ PollSleep

\* the whole bot, with the sample posts
Spec == Init /\ [][Next]_vars

\* the dispatcher alone: a post is about to arrive over the open
\* subscription, or a polling cycle has fetched a batch of posts
InitDispatch ==
  /\ pc \in {"ws", "poll_disp"}
  /\ wsOpen = (pc = "ws")
  /\ depth = IF pc = "ws" THEN 0 ELSE 1
  /\ batch = IF pc = "ws" THEN 0 ELSE MaxBatch
  /\ chansLeft = 0
  /\ now = 0
  /\ polling_start_time = 0
  /\ last_checked = 0
  /\ polls = 0
  /\ failed = FALSE
  /\ announced \in BOOLEAN
  /\ event = "none"
  /\ post = NoPost
  /\ lookup = "none"
  /\ sent = <<>>
  /\ exitStatus = -1
  /\ lastReconnect = -1
  /\ boot = [st \in BootSteps |->
               IF st = "announce" /\ ~announced THEN "failed" ELSE "ok"]
  /\ server = {}
  /\ queue = <<>>
  /\ fed = NoneFed

NextDispatch ==
  \/ WsDeliverAny \/ OnMessage \/ WsDiscard
  \/ PollDeliverAny \/ PollHandle \/ PollDiscard

\* every post up to the length bound, through both transports
SpecDispatch == InitDispatch /\ [][NextDispatch]_vars

\* the polling loop alone, right after the subscription has failed, with
\* posts arriving on the server while it runs
InitPoll ==
  /\ pc = "poll_list"
  /\ depth = 1
  /\ now = 0
  /\ polling_start_time = 0
  /\ last_checked = 0
  /\ polls = 0
  /\ chansLeft = 0
  /\ batch = 0
  /\ wsOpen = FALSE
  /\ failed = FALSE
  /\ announced = TRUE
  /\ boot = [st \in BootSteps |-> "ok"]
  /\ event = "none"
  /\ post = NoPost
  /\ lookup = "none"
  /\ sent = <<>>
  /\ exitStatus = -1
  /\ lastReconnect = -1
  /\ server = {}
  /\ queue = <<>>
  /\ fed = NoneFed

NextPoll ==
  \/ SrvArrive \/ SrvElapse
  \/ PollListAll \/ PollFetchSince \/ PollDeliverFetched \/ PollHandle
  \/ PollDiscard \/ PollCycleEnd \/ PollSleepInterval

\* the polling loop against the server
SpecPoll == InitPoll /\ [][NextPoll]_vars

\* ------------------------------------------------- vocabulary of the claims
\* the texts of the posts handed to the transport, in order
Texts(s) == [i \in 1..Len(s) |-> s[i].text]

\* the token sequence of the post being dispatched
W == Words(post.message)

\* handle_message has run on a post (it returned, or the process exited)
Handled == pc \in {"ws_ret", "poll_ret", "exited"} /\ event = "posted"

\* ... and the post reached the router: all fields present, written by
\* another user, the bot's identity resolved
Routed == Handled /\ post.complete /\ post.user_id # BotId /\ lookup = "ok"

\* the first token mentions the bot
DirectAddressed == Len(W) > 0 /\ StartsWithMention(W[1])

HasToken(t) == \E i \in 1..Len(W) : W[i] = t

\* some "restart" is immediately followed by "yourself"
RestartYourself ==
  \E i \in 1..(Len(W) - 1) : W[i] = "restart" /\ W[i + 1] = "yourself"

\* the first "restart" is immediately followed by "yourself"
FirstRestartYourself ==
  \E i \in 1..(Len(W) - 1) :
    /\ W[i] = "restart" /\ W[i + 1] = "yourself"
    /\ \A j \in 1..(i - 1) : W[j] # "restart"

\* the first "restart" is the last token
FirstRestartLast ==
  /\ Len(W) > 0 /\ W[Len(W)] = "restart"
  /\ \A j \in 1..(Len(W) - 1) : W[j] # "restart"

\* the first "restart" is followed by a token other than "yourself"
FirstRestartOther ==
  \E i \in 1..(Len(W) - 1) :
    /\ W[i] = "restart" /\ W[i + 1] # "yourself"
    /\ \A j \in 1..(i - 1) : W[j] # "restart"

\* ------------------------------------------------------------------ claims

\* C1: a post whose author is the bot itself never produces an outbound
\* post and never ends the process, whatever its body and whichever
\* transport delivered it.
C1_SelfPostNeverAnswered ==
  (event = "posted" /\ post.user_id = BotId) => (sent = <<>> /\ exitStatus = -1)

\* C1 witness: the bot's own help text (it contains the tokens help and
\* hello) came back over the stream, was dispatched with the identity
\* resolved, and nothing was sent.
C1_Witness ==
  /\ pc = "ws_ret" /\ event = "posted" /\ lookup = "ok"
  /\ post.user_id = BotId /\ HasToken("help") /\ HasToken("hello")
  /\ sent = <<>>

\* C2 (as claimed): whenever the push subscription ends - it fails to
\* open, raises, or returns - the next position of the supervisor is the
\* start of a polling loop with a fresh polling-start timestamp.
C2_TerminationLeadsToPolling ==
  [][(pc \in {"connect", "ws"} /\ pc' \notin {"ws", "ws_msg"})
       => (pc' = "poll_list" /\ polling_start_time' = now')]_vars

\* C3: the process ends only in the dispatch of a direct-addressed post in
\* which "restart" is immediately followed by "yourself", and then with
\* status 0; no other step (login, bootstrap, subscription, polling
\* request, event decoding, send) ends it.
C3_ExitOnlyByRestartYourself ==
  [][(pc' = "exited" \/ exitStatus' # -1)
       => /\ pc \in {"ws_msg", "poll_msg"}
          /\ event = "posted"
          /\ DirectAddressed
          /\ RestartYourself
          /\ pc' = "exited"
          /\ exitStatus' = 0]_vars

\* C3 witness: the process has exited with status 0 from the polling loop,
\* i.e. after the subscription had failed and polling had taken over.
C3_Witness == pc = "exited" /\ exitStatus = 0 /\ depth >= 1 /\ polls >= 1

\* C4 (as claimed): a run() that follows a failed bootstrap starts no
\* sooner than the restart delay (poll_interval) after the failure.
C4_RetryAfterDelay ==
  [][(pc = "run_done" /\ failed /\ pc' = "login")
       => now' >= now + PollInterval]_vars

\* C5: a reconnection attempt is made only when reconnect_delay has passed
\* since the polling-start timestamp, and no sooner than reconnect_delay
\* after the previous attempt; an attempt that fails leaves the process
\* running at the start of a polling loop whose polling-start timestamp is
\* the current time.
C5_ReconnectOncePerThreshold ==
  [][/\ (depth > 0 /\ pc # "connect" /\ pc' = "connect")
          => /\ now - polling_start_time >= ReconnectDelay
             /\ (lastReconnect = -1 \/ now - lastReconnect >= ReconnectDelay)
     /\ (depth > 0 /\ pc \in {"connect", "ws"} /\ pc' \in PollPcs)
          => /\ pc' = "poll_list"
             /\ polling_start_time' = now'
             /\ exitStatus' = -1]_vars

\* C5 witness: two reconnection attempts have failed and the supervisor is
\* polling again.
C5_Witness ==
  /\ depth >= 3 /\ pc \in PollPcs
  /\ lastReconnect >= 2 * ReconnectDelay
  /\ polling_start_time = lastReconnect

\* C6: the push subscription is never open while a polling loop runs, the
\* stream callback runs only while the subscription is open, and once the
\* supervisor is in one of the two transports exactly one of them is
\* active.
C6_OneTransportActive ==
  /\ ~(wsOpen /\ pc \in PollPcs)
  /\ (pc \in {"ws_msg", "ws_ret"} => wsOpen)
  /\ (pc \in {"poll_disp", "poll_msg", "poll_ret"} => (~wsOpen /\ depth >= 1))
  /\ (pc \in (WsPcs \cup PollPcs) => (wsOpen <=> pc \notin PollPcs))

\* C6 witness: the subscription was re-opened from inside the polling loop
\* and its callback has handled an event.
C6_Witness == depth >= 1 /\ wsOpen /\ pc = "ws_ret" /\ lastReconnect >= 0

\* C7 (as claimed): a routed direct-addressed post in which some "restart"
\* is immediately followed by "yourself" gets the farewell as its only
\* reply and ends the process with status 0.
C7_AnyRestartYourselfExits ==
  (Routed /\ DirectAddressed /\ RestartYourself)
    => (pc = "exited" /\ exitStatus = 0 /\ Texts(sent) = <<"farewell">>)

\* C7 (amended): a routed direct-addressed post whose FIRST "restart" is
\* immediately followed by "yourself" gets the farewell as its only reply,
\* whether or not that send succeeded, and ends the process with status 0;
\* nothing is sent and no step is taken after the exit.
C7_FirstRestartYourselfExits ==
  [][/\ (Routed /\ DirectAddressed /\ FirstRestartYourself)'
          => (pc = "exited" /\ exitStatus = 0 /\ Texts(sent) = <<"farewell">>)'
     /\ pc = "exited" => (pc' = pc /\ sent' = sent)]_vars

\* C7 witness: "@bot restart yourself help": the farewell send failed, the
\* process exited all the same and the help text was not sent.
C7_Witness ==
  /\ pc = "exited" /\ exitStatus = 0
  /\ DirectAddressed /\ FirstRestartYourself /\ HasToken("help")
  /\ sent = <<Reply("farewell", FALSE)>>

\* C8 (as claimed): for a routed direct-addressed post, if "restart" is
\* the last token the reply is the menu, and if a "restart" is followed by
\* a token other than "yourself" the reply is the "don't know" message; the
\* process keeps running.
C8_RestartLastGetsMenu ==
  (Routed /\ DirectAddressed /\ HasToken("restart"))
    => /\ (W[Len(W)] = "restart" => (sent # <<>> /\ sent[1].text = "menu"))
       /\ ((\E i \in 1..(Len(W) - 1) : W[i] = "restart" /\ W[i + 1] # "yourself")
             => (sent # <<>> /\ sent[1].text = "unknown"))
       /\ (~RestartYourself => exitStatus = -1)

\* C8 (amended): for a routed direct-addressed post, if the FIRST
\* "restart" is the last token the first reply is the menu, and if the
\* token after the FIRST "restart" is not "yourself" the first reply is
\* the "don't know" message; in both cases the dispatch leaves the process
\* running and the transport as it was, at the point where the next post
\* is taken.
C8_FirstRestartMenuOrUnknown ==
  [][(pc \in {"ws_msg", "poll_msg"} /\ DirectAddressed /\ (Routed)'
        /\ (FirstRestartLast \/ FirstRestartOther))
       => /\ sent' # <<>>
          /\ FirstRestartLast => sent'[1].text = "menu"
          /\ FirstRestartOther => sent'[1].text = "unknown"
          /\ exitStatus' = -1
          /\ pc' = (IF pc = "ws_msg" THEN "ws_ret" ELSE "poll_ret")
          /\ wsOpen' = wsOpen /\ depth' = depth /\ batch' = batch]_vars

\* C8 witness: "@bot restart help ..." was answered with the "don't know"
\* message (and the help text) in a polling cycle that still has a post
\* to dispatch.
C8_Witness ==
  /\ pc = "poll_ret" /\ Routed /\ DirectAddressed /\ FirstRestartOther
  /\ Texts(sent) = <<"unknown", "help">>
  /\ batch > 0 /\ exitStatus = -1

\* C9 (as claimed): one dispatch hands at most one post to the transport.
C9_AtMostOneReply == Len(sent) <= 1

\* C9 (amended): one dispatch hands at most two posts to the transport: at
\* most one from the direct-address/restart branch, then at most one from
\* the help-or-hello branch; a post that is not direct-addressed gets at
\* most one.
C9_AtMostTwoReplies ==
  /\ Len(sent) <= 2
  /\ (Handled /\ ~DirectAddressed) => Len(sent) <= 1
  /\ Len(sent) = 2
       => /\ sent[1].text \in {"talking", "menu", "unknown"}
          /\ sent[2].text \in {"help", "hello"}

\* C9 witness: a direct-addressed post with the token hello got two posts.
C9_Witness ==
  Routed /\ DirectAddressed /\ Texts(sent) = <<"talking", "hello">>

\* C10 (as claimed): for every routed token sequence, help and hello
\* together give the help text and not the hello text, hello without help
\* gives the hello text, and neither token without direct address gives
\* nothing.
C10_HelpBeforeHello ==
  Routed
    => /\ (HasToken("help") /\ HasToken("hello"))
            => (\E i \in 1..Len(sent) : sent[i].text = "help")
               /\ (\A i \in 1..Len(sent) : sent[i].text # "hello")
       /\ (HasToken("hello") /\ ~HasToken("help"))
            => (\E i \in 1..Len(sent) : sent[i].text = "hello")
       /\ (~HasToken("hello") /\ ~HasToken("help") /\ ~DirectAddressed)
            => sent = <<>>

\* C10 (amended): the same, except for a direct-addressed post whose first
\* "restart" is followed by "yourself": there the process exits after the
\* farewell and neither the help nor the hello text is sent.
C10_HelpBeforeHelloUnlessExit ==
  Routed
    => /\ (HasToken("help") /\ HasToken("hello")
             /\ ~(DirectAddressed /\ FirstRestartYourself))
            => (\E i \in 1..Len(sent) : sent[i].text = "help")
               /\ (\A i \in 1..Len(sent) : sent[i].text # "hello")
       /\ (HasToken("hello") /\ ~HasToken("help")
             /\ ~(DirectAddressed /\ FirstRestartYourself))
            => (\E i \in 1..Len(sent) : sent[i].text = "hello")
       /\ (~HasToken("hello") /\ ~HasToken("help") /\ ~DirectAddressed)
            => sent = <<>>
       /\ (DirectAddressed /\ FirstRestartYourself)
            => (\A i \in 1..Len(sent) : sent[i].text \notin {"help", "hello"})

\* C10 witness: a post with both tokens got the help text only.
C10_Witness ==
  /\ Routed /\ HasToken("help") /\ HasToken("hello") /\ ~DirectAddressed
  /\ Texts(sent) = <<"help">>

\* handle_message is about to run on the inbound item
Dispatching == pc \in {"ws_msg", "poll_msg"}

\* where control is once the handler has returned
Returned == IF pc = "ws_msg" THEN "ws_ret" ELSE "poll_ret"

\* the dispatch leaves the supervisor where it was
TransportUntouched ==
  /\ wsOpen' = wsOpen /\ depth' = depth
  /\ batch' = batch /\ chansLeft' = chansLeft
  /\ polling_start_time' = polling_start_time /\ last_checked' = last_checked

\* C11 (as claimed): a dispatch in which a send failed returns to the
\* transport that delivered the post, which is unchanged and takes the next
\* post; no text is sent twice.
C11_SendFailureNeverStops ==
  [][(Dispatching /\ \E i \in 1..Len(sent') : ~sent'[i].ok)
       => /\ pc' = Returned
          /\ exitStatus' = -1
          /\ TransportUntouched
          /\ \A i, j \in 1..Len(sent') : i # j => sent'[i].text # sent'[j].text]_vars

\* C11 (amended): a dispatch in which a send failed goes on exactly as if
\* the send had succeeded: the other reply of the same post is still sent,
\* no text is sent twice, the transport is unchanged and takes the next
\* post - unless the failed send was the farewell of a restart-yourself
\* command, after which the process exits with status 0 as it does when
\* the farewell is delivered.
C11_SendFailureChangesNothing ==
  [][(Dispatching /\ \E i \in 1..Len(sent') : ~sent'[i].ok)
       => /\ IF Texts(sent') = <<"farewell">>
             THEN pc' = "exited" /\ exitStatus' = 0
             ELSE pc' = Returned /\ exitStatus' = -1
          /\ TransportUntouched
          /\ \A i, j \in 1..Len(sent') : i # j => sent'[i].text # sent'[j].text
          /\ (DirectAddressed /\ ~FirstRestartYourself
                /\ (HasToken("help") \/ HasToken("hello")))
               => Len(sent') = 2]_vars

\* C11 witness: in a polling cycle with a post still to dispatch, the first
\* send of a post failed, the second was made and accepted, and the handler
\* returned.
C11_Witness ==
  /\ pc = "poll_ret" /\ batch > 0 /\ exitStatus = -1
  /\ sent = <<Reply("talking", FALSE), Reply("help", TRUE)>>

\* C13: an event that is not valid JSON, an event of another type, a
\* "posted" event without a post, a post with a missing field and a post
\* with an empty or whitespace-only body produce no outbound post, do not
\* end the subscription or the polling loop and leave the transport as it
\* was.
C13_GarbledInputIgnored ==
  [][(Dispatching
        /\ (event # "posted" \/ ~post.complete \/ post.message = <<>>))
       => /\ sent' = <<>>
          /\ pc' = Returned
          /\ exitStatus' = -1
          /\ TransportUntouched]_vars

\* C13 witness: the stream callback has returned from an event that was
\* not valid JSON; the subscription is still open and nothing was sent.
C13_Witness ==
  pc = "ws_ret" /\ event = "garbled" /\ wsOpen /\ sent = <<>> /\ exitStatus = -1

\* C19: a dispatch in which the lookup of the bot's own identity failed
\* sends nothing, whoever wrote the post, does not end the process and
\* returns to the transport, which is unchanged and takes the next post.
C19_LookupFailureFailsClosed ==
  [][(Dispatching /\ lookup' = "failed")
       => /\ sent' = <<>>
          /\ pc' = Returned
          /\ exitStatus' = -1
          /\ TransportUntouched]_vars

\* C19 witness: in a polling cycle with a post still to dispatch, the
\* lookup failed for a post written by the bot itself that contains the
\* token help; nothing was sent and the handler returned.
C19_Witness ==
  /\ pc = "poll_ret" /\ batch > 0 /\ lookup = "failed"
  /\ post.user_id = BotId /\ HasToken("help")
  /\ sent = <<>> /\ exitStatus = -1

\* a request of the polling cycle did not return: the step taken from the
\* listing of the channels, or from the fetch of a channel, is not the
\* continuation of the cycle
RequestFailed ==
  \/ pc = "poll_list" /\ pc' # "poll_chan"
  \/ pc = "poll_chan" /\ chansLeft > 0 /\ pc' \notin {"poll_disp", "poll_chan"}

\* C12: a polling request that raises leads to the sleep of the same
\* polling loop (same activation, subscription closed, process running,
\* polling-start timestamp kept), and the sleep is followed, at least one
\* poll interval later, by the next cycle of that loop.
C12_PollErrorStaysInPolling ==
  [][/\ RequestFailed
          => /\ pc' = "poll_sleep"
             /\ depth' = depth /\ ~wsOpen' /\ exitStatus' = -1
             /\ polling_start_time' = polling_start_time
     /\ pc = "poll_sleep"
          => /\ pc' = "poll_list"
             /\ now' >= now + PollInterval
             /\ depth' = depth /\ ~wsOpen' /\ exitStatus' = -1]_vars

\* C12 witness: the loop sleeps after a cycle that failed, two poll
\* intervals after polling started and without any cycle having advanced
\* last_checked since the first sleep: two consecutive cycles failed.
C12_Witness ==
  /\ pc = "poll_sleep" /\ depth = 1
  /\ now - polling_start_time = 2 * PollInterval
  /\ last_checked = polling_start_time

\* C15 (as claimed): a polling cycle that ends when reconnect_delay has
\* passed since the polling-start timestamp ends in a reconnection
\* attempt, whether its requests succeeded or raised; so a cycle goes to
\* the sleep only while the threshold has not been reached.
C15_ReconnectEvenIfFetchFails ==
  [][(pc \in {"poll_list", "poll_chan"} /\ pc' = "poll_sleep")
       => now - polling_start_time < ReconnectDelay]_vars

\* C18 (as claimed): at most one activation of poll_messages exists.
C18_SinglePollingActivation == depth <= 1

\* the supervisor has started: connect_websocket_or_fallback was entered
SupervisorStarted == pc \in ({"connect"} \cup WsPcs \cup PollPcs)

\* C14 (as claimed): the supervisor starts only after login, team
\* resolution, bot-user resolution, private-channel discovery/creation and
\* the startup announcement of that run have all succeeded.
C14_SupervisorAfterFullBootstrap ==
  SupervisorStarted => \A st \in BootSteps : boot[st] = "ok"

\* C14 (amended): the supervisor starts only after the bootstrap sequence
\* of that run has run to its end: login, team resolution and bot-user
\* resolution have succeeded and private-channel discovery has been tried;
\* the announcement has been tried exactly when a channel was found.  A
\* missing channel or a failed announcement does not hold the supervisor
\* back.
C14_SupervisorAfterBootstrapRan ==
  SupervisorStarted
    => /\ ~failed
       /\ \A st \in {"login", "team", "user"} : boot[st] = "ok"
       /\ boot["channel"] \in {"ok", "failed"}
       /\ boot["channel"] = "ok" => boot["announce"] \in {"ok", "failed"}
       /\ boot["channel"] = "failed" => boot["announce"] = "pending"
       /\ announced <=> boot["announce"] = "ok"

\* C14 witness: the push subscription is open in a run whose private
\* channel could not be found, so no announcement was sent.
C14_Witness ==
  /\ pc = "ws" /\ wsOpen /\ depth = 0
  /\ boot["channel"] = "failed" /\ boot["announce"] = "pending"
  /\ boot["user"] = "ok"

\* C16 (as claimed): no post that arrives while the supervisor polls is
\* skipped.  A fetch returns the posts of second last_checked or later and
\* last_checked never goes back, so a post older than last_checked is not
\* fetched by any later cycle: whenever a finished cycle has moved
\* last_checked past the second of a post, the post has been handed to
\* handle_message.
C16_NoPostSkipped ==
  pc = "poll_sleep"
    => \A p \in server : p.at < last_checked => fed[p.id] >= 1

\* C17 (as claimed): while the supervisor polls, each post is handed to
\* handle_message at most once.
C17_FedAtMostOnce == \A i \in 1..MaxPosts : fed[i] <= 1

====
